---------------------------- MODULE Spec2Model ----------------------------
(***************************************************************************)
(* Model of the venue API of nightguide-api: the venue serializer and      *)
(* deserializer with their range bucketing (venueRepository helpers), the  *)
(* venue router handlers that compose them with the document store, the    *)
(* facebook-events date merge, and the jwtAuth middleware.                 *)
(*                                                                         *)
(* JavaScript values are modelled as follows.  Numbers are integers,       *)
(* strings are sequences of one-character strings, plain objects are       *)
(* functions from key names to values (DOMAIN gives the keys an object     *)
(* has), arrays are sequences.  Where one expression can yield values of   *)
(* several JavaScript types (the accumulator of a reduce, a looked-up      *)
(* property that may be missing) the value carries its type in a `kind'    *)
(* field: Null, Undefined, Num(n), Pair(lo, up).                           *)
(***************************************************************************)
EXTENDS Integers, Sequences, FiniteSets, TLC

VARIABLES
    VENUE_CAPACITY_RANGES,  \* shared/constants: global capacity boundaries
    cityConfigs,            \* shared/cityConfig: (country, city) -> config
    rangeCall,              \* last call of a range bucketer: fn, value, result
    data,                   \* the payload object (req.body) a caller holds
    doc,                    \* last call of serialize: argument as passed, outcome
    deser,                  \* last call of deserialize / deserializeImage
    venues,                 \* the venue collection: _id -> stored document
    created,                \* number of venue ids the store has generated
    requests,               \* /venues requests in progress, by slot
    response,               \* the response sent last
    events,                 \* the event collection: facebook.id -> document
    fbHandler,              \* facebook-events requests in progress, by slot
    jwt                     \* jwtAuth: requests passing through, by slot

confVars == <<VENUE_CAPACITY_RANGES, cityConfigs>>
pureVars == <<rangeCall, data, doc, deser>>
httpVars == <<venues, created, requests, response>>
eventVars == <<events, fbHandler>>
authVars == <<jwt>>
vars == <<VENUE_CAPACITY_RANGES, cityConfigs, rangeCall, data, doc, deser,
          venues, created, requests, response, events, fbHandler, jwt>>

---------------------------------------------------------------------------
(* Bounds of the model *)

\* Boundary values of a bucket table are drawn from 0..MaxBound.
MaxBound == 4
\* A bucket table has at most MaxLen boundaries.
MaxLen == 3
\* A stored venue has at most MaxImages images.
MaxImages == 2
\* The store generates at most MaxVenues venue ids.
MaxVenues == 1
\* The events of one facebook-events request carry at most MaxDates dates
\* between them.
MaxDates == 2
\* The jwtAuth middleware is followed over MaxRequests requests.
MaxRequests == 4

---------------------------------------------------------------------------
(* JavaScript values *)

Null == [kind |-> "null"]
Undefined == [kind |-> "undefined"]
Num(n) == [kind |-> "number", value |-> n]
Pair(lo, up) == [kind |-> "array", items |-> <<lo, up>>]
NaN == [kind |-> "nan"]

\* ToBoolean of a kinded value: null, undefined and 0 are falsy; arrays
\* (objects) and non-zero numbers are truthy.
Truthy(x) ==
    CASE x.kind = "null" -> FALSE
      [] x.kind = "undefined" -> FALSE
      [] x.kind = "nan" -> FALSE
      [] x.kind = "number" -> x.value # 0
      [] OTHER -> TRUE

\* Plain objects: {} and obj[key] = value, delete obj[key].
EmptyObject == [k \in {} |-> 0]
Has(obj, key) == key \in DOMAIN obj
Set(obj, key, value) ==
    [k \in DOMAIN obj \cup {key} |-> IF k = key THEN value ELSE obj[k]]
Delete(obj, key) == [k \in DOMAIN obj \ {key} |-> obj[k]]

\* The outcome of a call: a returned value or a thrown error.
Returned(v) == [threw |-> FALSE, value |-> v]
Thrown(e) == [threw |-> TRUE, error |-> e]
NotCalled == [threw |-> FALSE, pending |-> TRUE]

\* obj[key] of a plain object whose properties are numbers: undefined when
\* the object has no such key.
Prop(obj, key) == IF key \in DOMAIN obj THEN Num(obj[key]) ELSE Undefined

\* arr[index] with JavaScript's 0-based index: undefined past the end.
At(arr, index) ==
    IF index >= 0 /\ index < Len(arr) THEN Num(arr[index + 1]) ELSE Undefined

\* a > b and a <= b on kinded values: any comparison with undefined is false.
Gt(a, b) == a.kind = "number" /\ b.kind = "number" /\ a.value > b.value
Le(a, b) == a.kind = "number" /\ b.kind = "number" /\ a.value <= b.value

---------------------------------------------------------------------------
(* City configuration *)

TheCity == <<"NL", "Amsterdam">>

\* cityConfig.get(country, city)
cityConfigGet(country, city) == cityConfigs[<<country, city>>]

IsAscending(b) == \A i \in 1..(Len(b) - 1) : b[i] < b[i + 1]

\* The bucket tables a configuration can hold: strictly ascending lists of
\* non-negative boundaries.
AscLists ==
    {b \in UNION {[1..n -> 0..MaxBound] : n \in 0..MaxLen} : IsAscending(b)}

\* A fixed table for the specifications that do not vary it.
DefaultRanges == <<0, 2, 4>>

Conf(fee, coke, beer) ==
    [currency |-> "EUR",
     entranceFeeRanges |-> fee,
     priceClassRanges |-> [coke |-> coke, beer |-> beer]]

---------------------------------------------------------------------------
(* Range bucketers *)

\* The reduce callback of getEntranceFeeRange, applied from `index' on.
RECURSIVE EntranceFeeReduce(_, _, _, _)
EntranceFeeReduce(venue, cityConf, index, range) ==
    IF index >= Len(cityConf.entranceFeeRanges) THEN range
    ELSE
      LET lowerBound == At(cityConf.entranceFeeRanges, index)
          upperBound == At(cityConf.entranceFeeRanges, index + 1)
          entrance == Prop(venue.fees, "entrance")
          step ==
            IF Truthy(range) THEN range
            ELSE IF ~Truthy(upperBound) THEN lowerBound
            ELSE IF Gt(entrance, lowerBound) /\ Le(entrance, upperBound)
                 THEN Pair(lowerBound.value, upperBound.value)
            ELSE Undefined
      IN EntranceFeeReduce(venue, cityConf, index + 1, step)

getEntranceFeeRange_inclusiveLower(venue, cityConf) ==
    LET b == cityConf.entranceFeeRanges
        v == venue.fees.entrance
        hits == {i \in 1..(Len(b) - 1) : b[i] <= v /\ v < b[i + 1]}
    IN IF Len(b) = 0 THEN Null
       ELSE IF hits # {}
            THEN LET i == CHOOSE j \in hits : \A k \in hits : j <= k
                 IN Pair(b[i], b[i + 1])
       ELSE Num(b[Len(b)])

getEntranceFeeRange(venue, cityConf) ==
    EntranceFeeReduce(venue, cityConf, 0, Null)

\* The reduce callback of getCapacityRange, applied from `index' on.
RECURSIVE CapacityReduce(_, _, _)
CapacityReduce(venue, index, range) ==
    IF index >= Len(VENUE_CAPACITY_RANGES) THEN range
    ELSE
      LET lowerBound == At(VENUE_CAPACITY_RANGES, index)
          upperBound == At(VENUE_CAPACITY_RANGES, index + 1)
          capacity == Prop(venue, "capacity")
          step ==
            IF Truthy(range) THEN range
            ELSE IF ~Truthy(upperBound) THEN lowerBound
            ELSE IF Gt(capacity, lowerBound) /\ Le(capacity, upperBound)
                 THEN Pair(lowerBound.value, upperBound.value)
            ELSE Undefined
      IN CapacityReduce(venue, index + 1, step)

getCapacityRange_pairAtEnd(venue) ==
    LET b == VENUE_CAPACITY_RANGES
        r == CapacityReduce(venue, 0, Null)
    IN IF Len(b) >= 2 /\ r = Num(b[Len(b)])
       THEN Pair(b[Len(b) - 1], b[Len(b)])
       ELSE r

getCapacityRange(venue) == CapacityReduce(venue, 0, Null)

---------------------------------------------------------------------------
(* Venue serializer *)

\* Math.max(a, b) after ToNumber: null counts as 0, undefined as NaN, and a
\* NaN operand makes the result NaN.
ToNumber(x) ==
    CASE x.kind = "number" -> x
      [] x.kind = "null" -> Num(0)
      [] OTHER -> NaN

MathMax(a, b) ==
    LET x == ToNumber(a)
        y == ToNumber(b)
    IN IF x.kind = "nan" \/ y.kind = "nan" THEN NaN
       ELSE IF x.value >= y.value THEN x ELSE y

\* The reduce callback of getClassForRanges, applied from `index' on.
RECURSIVE ClassReduce(_, _, _, _)
ClassReduce(ranges, price, index, range) ==
    IF index >= Len(ranges) THEN range
    ELSE
      LET lowerBound == At(ranges, index)
          upperBound == At(ranges, index + 1)
          step ==
            IF Truthy(range) THEN range
            ELSE IF \/ ~Truthy(upperBound)
                    \/ (Gt(price, lowerBound) /\ Le(price, upperBound))
                 THEN Num(index + 1)
            ELSE Undefined
      IN ClassReduce(ranges, price, index + 1, step)

getClassForRanges(ranges, price) == ClassReduce(ranges, price, 0, Null)

getPriceClass(venue, cityConf) ==
    LET coke == Prop(venue.prices, "coke")
        beer == Prop(venue.prices, "beer")
    IN IF ~Truthy(coke) /\ ~Truthy(beer) THEN Null
       ELSE LET cokeClass == getClassForRanges(cityConf.priceClassRanges.coke, coke)
                beerClass == getClassForRanges(cityConf.priceClassRanges.beer, beer)
            IN MathMax(cokeClass, beerClass)

\* unidecode of one character: an accented letter becomes its ASCII base,
\* a ligature its ASCII spelling, ASCII stays as it is (case included).
unidecodeChar(c) ==
    CASE c = "e-acute" -> <<"e">>
      [] c = "E-acute" -> <<"E">>
      [] c = "sharp-s" -> <<"s", "s">>
      [] OTHER -> <<c>>

\* unidecode(str): str.replace(non-ASCII, transliteration).
RECURSIVE unidecode(_)
unidecode(str) ==
    IF str = <<>> THEN <<>>
    ELSE unidecodeChar(Head(str)) \o unidecode(Tail(str))

\* `data.location && data.location.country && data.location.city'
HasCountryAndCity(obj) ==
    /\ Has(obj, "location")
    /\ Has(obj.location, "country") /\ obj.location.country # ""
    /\ Has(obj.location, "city") /\ obj.location.city # ""

\* Lines 72-75: rename id to _id.
RenameId(d) ==
    IF Has(d, "id") /\ d.id # ""
    THEN Delete(Set(d, "_id", d.id), "id")
    ELSE d

\* Lines 77-84: derive priceClass.
SetPriceClass_always(d) ==
    Set(d, "priceClass",
        IF Has(d, "prices") /\ HasCountryAndCity(d)
        THEN getPriceClass(d, cityConfigGet(d.location.country, d.location.city))
        ELSE Null)

SetPriceClass(d) ==
    IF Has(d, "prices") /\ HasCountryAndCity(d)
    THEN Set(d, "priceClass",
             getPriceClass(d, cityConfigGet(d.location.country, d.location.city)))
    ELSE d

\* Lines 86-94: encode the geo-point.
EncodeCoordinates(d) ==
    IF Has(d, "location") /\ Has(d.location, "coordinates")
    THEN Set(d, "location",
             Set(d.location, "coordinates",
                 [type |-> "Point",
                  coordinates |-> <<d.location.coordinates.longitude,
                                    d.location.coordinates.latitude>>]))
    ELSE d

\* Lines 96-98: derive queryText; unidecode(undefined) throws a TypeError
\* (it calls str.replace).
SetQueryText(d) ==
    IF Has(d, "queryText") /\ d.queryText # <<>> THEN Returned(d)
    ELSE IF ~Has(d, "name") THEN Thrown("TypeError")
    ELSE Returned(Set(d, "queryText", unidecode(d.name)))

serialize(d) == SetQueryText(EncodeCoordinates(SetPriceClass(RenameId(d))))

\* serialize writes into the object it is given and returns that object:
\* the object d after the call.  When unidecode throws, the writes of lines
\* 72-94 have been made.
WrittenBy(outcome, d) ==
    IF outcome.threw THEN EncodeCoordinates(SetPriceClass(RenameId(d)))
    ELSE outcome.value

Mutated(d) == WrittenBy(serialize(d), d)

\* A call of serialize as its caller sees it: the payload as it was passed
\* and what the call returned or threw.
SerializeCall(d) == [arg |-> d, outcome |-> serialize(d)]

---------------------------------------------------------------------------
(* Object identity.  deserialize works on objects that its caller still    *)
(* holds, so the objects it touches live in a heap: a sequence of objects  *)
(* addressed by position.  A venue object holds its location and each of   *)
(* its images by reference ([ref |-> address]); the other nested values    *)
(* (fees, prices, the geo-point) are never written in place and are held   *)
(* by value.  A mongoose document carries a toObject method.               *)

Ref(a) == [ref |-> a]

Write(heap, a, obj) == [heap EXCEPT ![a] = obj]

ImageRefs(obj) == IF Has(obj, "images") THEN obj.images ELSE <<>>

\* The object graph of the venue at address a, as one nested value.
Resolve(heap, a) ==
    LET obj == heap[a]
    IN [k \in DOMAIN obj |->
          IF k = "location" THEN heap[obj.location.ref]
          ELSE IF k = "images"
               THEN [i \in 1..Len(obj.images) |-> heap[obj.images[i].ref]]
          ELSE obj[k]]

\* _.cloneDeep(value): a copy of the object at address a and of every object
\* it references, at fresh addresses.
cloneDeep(heap, a) ==
    LET obj == heap[a]
        h1 == IF Has(obj, "location")
              THEN Append(heap, heap[obj.location.ref]) ELSE heap
        imgs == ImageRefs(obj)
        h2 == h1 \o [i \in 1..Len(imgs) |-> heap[imgs[i].ref]]
        copy == [k \in DOMAIN obj |->
                   IF k = "location" THEN Ref(Len(h1))
                   ELSE IF k = "images"
                        THEN [i \in 1..Len(imgs) |-> Ref(Len(h1) + i)]
                   ELSE obj[k]]
    IN [heap |-> Append(h2, copy), ref |-> Len(h2) + 1]

\* document.toObject(): the plain-object copy of a mongoose document, its
\* populated sub-documents converted too.
toObject(heap, a) ==
    LET obj == heap[a]
        h1 == IF Has(obj, "location")
              THEN Append(heap, Delete(heap[obj.location.ref], "toObject"))
              ELSE heap
        imgs == ImageRefs(obj)
        h2 == h1 \o [i \in 1..Len(imgs) |-> Delete(heap[imgs[i].ref], "toObject")]
        copy == [k \in DOMAIN obj \ {"toObject"} |->
                   IF k = "location" THEN Ref(Len(h1))
                   ELSE IF k = "images"
                        THEN [i \in 1..Len(imgs) |-> Ref(Len(h1) + i)]
                   ELSE obj[k]]
    IN [heap |-> Append(h2, copy), ref |-> Len(h2) + 1]

---------------------------------------------------------------------------
(* Venue deserializer *)

\* Lines 54-58: the image the rest of deserializeImage writes to.
SnapshotImage(heap, venueImage) ==
    IF Has(heap[venueImage], "toObject")
    THEN toObject(heap, venueImage)
    ELSE cloneDeep(heap, venueImage)

\* Lines 60-61 on the object at address a.
RenameImageId(heap, a) ==
    Write(heap, a,
          Delete(Set(heap[a], "id",
                     IF Has(heap[a], "_id") THEN heap[a]._id ELSE Undefined),
                 "_id"))

\* Lines 60-63 on the snapshot taken.
FinishImage(snap) ==
    [heap |-> RenameImageId(snap.heap, snap.ref), ref |-> snap.ref]

deserializeImage(heap, venueImage) == FinishImage(SnapshotImage(heap, venueImage))

\* venue.images.map(deserializeImage): the heap after the calls and the
\* references to the images they returned.
RECURSIVE MapDeserializeImage(_, _, _), MapImageNext(_, _, _)
MapDeserializeImage(heap, refs, out) ==
    IF refs = <<>> THEN [heap |-> heap, refs |-> out]
    ELSE MapImageNext(deserializeImage(heap, Head(refs).ref), Tail(refs), out)

MapImageNext(r, rest, out) ==
    MapDeserializeImage(r.heap, rest, Append(out, Ref(r.ref)))

\* Lines 13-17: the venue the rest of deserialize writes to.
Snapshot_alias(heap, venue) == [heap |-> heap, ref |-> venue]

Snapshot(heap, venue) ==
    IF Has(heap[venue], "toObject")
    THEN toObject(heap, venue)
    ELSE cloneDeep(heap, venue)

\* Lines 19-22 on the venue at address v.
StripInternal(heap, v) ==
    Write(heap, v,
          Delete(Delete(Delete(Set(heap[v], "id",
                                   IF Has(heap[v], "_id") THEN heap[v]._id
                                   ELSE Undefined),
                               "_id"), "sourceId"), "queryText"))

\* venue.images = (the mapped array)
WriteImages(m, v) == Write(m.heap, v, Set(m.heap[v], "images", m.refs))

\* Lines 24-26 on the venue at address v.
DeserializeImages(heap, v) ==
    IF Has(heap[v], "images")
    THEN WriteImages(MapDeserializeImage(heap, heap[v].images, <<>>), v)
    ELSE heap

\* Lines 29-34 on the location object at address l.
DecodeAt_swapped(heap, l) ==
    Write(heap, l,
          Set(heap[l], "coordinates",
              [longitude |-> heap[l].coordinates.coordinates[2],
               latitude |-> heap[l].coordinates.coordinates[1]]))

DecodeAt(heap, l) ==
    Write(heap, l,
          Set(heap[l], "coordinates",
              [longitude |-> heap[l].coordinates.coordinates[1],
               latitude |-> heap[l].coordinates.coordinates[2]]))

\* Lines 28-35 on the venue at address v (which has a location).
DecodeCoordinates(heap, v) ==
    IF Has(heap[heap[v].location.ref], "coordinates")
    THEN DecodeAt(heap, heap[v].location.ref)
    ELSE heap

\* Lines 40-42.
SetCapacityRange(obj) ==
    IF Truthy(Prop(obj, "capacity"))
    THEN Set(obj, "capacityRange", getCapacityRange(obj))
    ELSE obj

\* Lines 43-44.
SetCurrency(obj, cityConf) ==
    IF Has(obj, "fees") THEN Set(obj, "currency", cityConf.currency) ELSE obj

\* Lines 45-47.
SetEntranceFeeRange(obj, cityConf) ==
    IF Has(obj, "fees") /\ Truthy(Prop(obj.fees, "entrance"))
    THEN Set(obj, "entranceFeeRange", getEntranceFeeRange(obj, cityConf))
    ELSE obj

\* Lines 40-48 on the venue at address v, with its resolved configuration.
SetComputed(heap, v, cityConf) ==
    Write(heap, v,
          SetEntranceFeeRange(SetCurrency(SetCapacityRange(heap[v]), cityConf),
                              cityConf))

Threw(heap, v, error) == [heap |-> heap, threw |-> TRUE, error |-> error, ref |-> v]

\* Lines 37-50: the configuration lookup, which fails for a venue without
\* country and city, and the computed fields.
LookupAndCompute(heap, v, loc) ==
    IF ~(Has(loc, "country") /\ Has(loc, "city"))
    THEN Threw(heap, v, "ConfigNotFoundError")
    ELSE [heap |-> SetComputed(heap, v, cityConfigGet(loc.country, loc.city)),
          threw |-> FALSE, error |-> "", ref |-> v]

\* Lines 28-50 with the geo-point decoded.
AfterDecode(heap, v) == LookupAndCompute(heap, v, heap[heap[v].location.ref])

\* Lines 28-50: reading venue.location.coordinates of a venue without
\* location throws a TypeError.
AfterImages(heap, v) ==
    IF ~Has(heap[v], "location") THEN Threw(heap, v, "TypeError")
    ELSE AfterDecode(DecodeCoordinates(heap, v), v)

\* Lines 19-50 on the snapshot taken.
FinishVenue(snap) ==
    AfterImages(DeserializeImages(StripInternal(snap.heap, snap.ref), snap.ref),
                snap.ref)

\* deserialize(venue): the heap after the call, and either the address of
\* the returned structure or the error thrown.
deserialize(heap, venue) == FinishVenue(Snapshot(heap, venue))

---------------------------------------------------------------------------
(* Specification of the range bucketers: the tables are drawn at start-up, *)
(* then the bucketers are applied to venues.                               *)

NoCall == [fn |-> "none", value |-> 0, result |-> Null]
NoDeser == [fn |-> "none"]
NoResponse == [method |-> "none", ok |-> TRUE, status |-> 0]

\* Requests are handled concurrently: a handler that awaits returns to the
\* event loop, and the handler of another request runs.  Each router
\* follows the requests in progress in two slots.
Slots == {"r1", "r2"}

Idle == [pc |-> "idle"]

\* No venue stored, no request in progress.
HttpIdle ==
    /\ venues = EmptyObject
    /\ created = 0
    /\ requests = [s \in Slots |-> Idle]
    /\ response = NoResponse

\* No event stored, no facebook-events request in progress.
EventsIdle ==
    /\ events = EmptyObject
    /\ fbHandler = [s \in Slots |-> Idle]

\* No request has entered the middleware.
AuthIdle == jwt = [handled |-> 0, reqs |-> [s \in Slots |-> Idle]]

PureIdle ==
    /\ rangeCall = NoCall
    /\ data = EmptyObject
    /\ doc = NotCalled
    /\ deser = NoDeser

InitRanges ==
    /\ VENUE_CAPACITY_RANGES \in AscLists
    /\ \E fee \in AscLists :
         cityConfigs = [c \in {TheCity} |-> Conf(fee, DefaultRanges, DefaultRanges)]
    /\ rangeCall = NoCall
    /\ data = EmptyObject
    /\ doc = NotCalled
    /\ deser = NoDeser
    /\ HttpIdle
    /\ EventsIdle
    /\ AuthIdle

CallGetCapacityRange ==
    \E v \in 0..(MaxBound + 1) :
      /\ rangeCall' = [fn |-> "getCapacityRange", value |-> v,
                       result |-> getCapacityRange([capacity |-> v])]
      /\ UNCHANGED <<confVars, data, doc, deser, httpVars, eventVars, authVars>>

CallGetEntranceFeeRange ==
    \E v \in 0..(MaxBound + 1) :
      /\ rangeCall' = [fn |-> "getEntranceFeeRange", value |-> v,
                       result |-> getEntranceFeeRange(
                                    [fees |-> [entrance |-> v]],
                                    cityConfigGet(TheCity[1], TheCity[2]))]
      /\ UNCHANGED <<confVars, data, doc, deser, httpVars, eventVars, authVars>>

NextRanges == CallGetCapacityRange \/ CallGetEntranceFeeRange

SpecRanges == InitRanges /\ [][NextRanges]_vars

\* The boundary table the last bucketer call ran against.
CallTable ==
    IF rangeCall.fn = "getCapacityRange" THEN VENUE_CAPACITY_RANGES
    ELSE cityConfigs[TheCity].entranceFeeRanges

Called == rangeCall.fn # "none"

---------------------------------------------------------------------------
(* Claims about the range bucketers (checked under SpecRanges) *)

\* C1 (as stated in the specification): whenever a bucketer has been applied
\* to a non-empty ascending table b and a value v <= b[0], its result is
\* null.
C1_BelowFirstIsNull ==
    (Called /\ Len(CallTable) >= 1 /\ rangeCall.value <= CallTable[1])
        => rangeCall.result = Null

\* C2: whenever a bucketer has been applied to a table b and a value v with
\* b[i] < v <= b[i+1] for some i, its result is the pair [b[i], b[i+1]] of
\* the smallest such i; in particular a value equal to a boundary lands in
\* the bucket that has the boundary as its upper bound.
C2_InteriorBucket ==
    Called =>
      \A i \in 1..(Len(CallTable) - 1) :
        (/\ CallTable[i] < rangeCall.value
         /\ rangeCall.value <= CallTable[i + 1]
         /\ \A j \in 1..(i - 1) :
              ~(CallTable[j] < rangeCall.value /\ rangeCall.value <= CallTable[j + 1]))
          => rangeCall.result = Pair(CallTable[i], CallTable[i + 1])

\* A value exactly on an interior boundary was bucketed below that boundary.
C2_Witness ==
    /\ Called
    /\ Len(CallTable) >= 3
    /\ rangeCall.value = CallTable[2]
    /\ rangeCall.result = Pair(CallTable[1], CallTable[2])

\* C3: whenever a bucketer has been applied to a non-empty table b and a
\* value v > b[last], its result is the single number b[last]; applied to
\* an empty table its result is null.
C3_OpenEndedLast ==
    Called =>
      /\ (Len(CallTable) >= 1 /\ rangeCall.value > CallTable[Len(CallTable)])
            => rangeCall.result = Num(CallTable[Len(CallTable)])
      /\ Len(CallTable) = 0 => rangeCall.result = Null

\* A value above the last of several boundaries got the last boundary alone.
C3_Witness ==
    /\ Called
    /\ Len(CallTable) >= 2
    /\ rangeCall.value > CallTable[Len(CallTable)]
    /\ rangeCall.result = Num(CallTable[Len(CallTable)])

---------------------------------------------------------------------------
(* Specification of the price class: the two beverage tables are drawn at  *)
(* start-up, then priced payloads are serialized.                          *)

\* Beverage prices of a payload: each of coke and beer absent or a number.
PriceObjects ==
    {p \in UNION {[ks -> 0..(MaxBound + 1)] : ks \in SUBSET {"coke", "beer"}} : TRUE}

CityLocation == [country |-> TheCity[1], city |-> TheCity[2]]

InitPrice ==
    /\ VENUE_CAPACITY_RANGES = DefaultRanges
    /\ \E coke \in AscLists, beer \in AscLists :
         cityConfigs = [c \in {TheCity} |-> Conf(DefaultRanges, coke, beer)]
    /\ rangeCall = NoCall
    /\ data = EmptyObject
    /\ doc = NotCalled
    /\ deser = NoDeser
    /\ HttpIdle
    /\ EventsIdle
    /\ AuthIdle

\* serialize applied to a request body.
SerializeBody(body) ==
    /\ doc' = SerializeCall(body)
    /\ data' = WrittenBy(doc'.outcome, body)

\* A create or update request whose body carries prices for a known city.
SerializePriced ==
    \E p \in PriceObjects :
      /\ SerializeBody([name |-> <<"X">>, location |-> CityLocation, prices |-> p])
      /\ UNCHANGED <<confVars, rangeCall, deser, httpVars, eventVars, authVars>>

\* The same without a location: no city configuration is resolved.
SerializePricedNoCity ==
    \E p \in PriceObjects :
      /\ SerializeBody([name |-> <<"X">>, prices |-> p])
      /\ UNCHANGED <<confVars, rangeCall, deser, httpVars, eventVars, authVars>>

NextPrice == SerializePriced \/ SerializePricedNoCity

SpecPrice == InitPrice /\ [][NextPrice]_vars

\* The 1-based index of the bucket (b[i-1], b[i]] of table b holding price.
BucketIndexes(b, price) ==
    {i \in 1..(Len(b) - 1) : b[i] < price /\ price <= b[i + 1]}

SetMax(S) == CHOOSE x \in S : \A y \in S : y <= x

\* C6 (as stated in the specification): when serialize has computed a
\* priceClass from prices and a resolved city configuration, and every
\* submitted price falls in a bucket of its table, priceClass is the
\* largest bucket index of the submitted categories alone; a category whose
\* price is absent contributes nothing. With no price submitted it is null.
C6_MaxOverSubmitted ==
    (/\ doc # NotCalled /\ ~doc.outcome.threw
     /\ Has(doc.arg, "prices") /\ HasCountryAndCity(doc.arg))
      => LET tables == cityConfigs[TheCity].priceClassRanges
             prices == doc.arg.prices
             submitted == DOMAIN prices
             classes == UNION {BucketIndexes(tables[c], prices[c]) : c \in submitted}
         IN /\ submitted = {} => doc.outcome.value.priceClass = Null
            /\ (/\ submitted # {}
                /\ \A c \in submitted : BucketIndexes(tables[c], prices[c]) # {})
                  => doc.outcome.value.priceClass = Num(SetMax(classes))

---------------------------------------------------------------------------
(* Specification of the serializer pipeline: a payload is serialized, the  *)
(* document is stored, and the stored venue and its images are             *)
(* deserialized for a client.                                              *)

\* Optional(key, values): the objects with no key, or key set to a value.
Optional(key, values) == {EmptyObject} \cup {Set(EmptyObject, key, v) : v \in values}

\* The union of two objects with disjoint keys.
Merge(a, b) == [k \in DOMAIN a \cup DOMAIN b |-> IF k \in DOMAIN a THEN a[k] ELSE b[k]]

Coordinates == {[longitude |-> 10, latitude |-> 55], [longitude |-> -3, latitude |-> 0]}

Locations ==
    {Merge(cc, co) : cc \in {EmptyObject, CityLocation},
                     co \in Optional("coordinates", Coordinates)}

Names == {<<"X">>, <<"E-acute", "x">>}

\* Create and partial-update payloads.
Payloads ==
    {Merge(n, Merge(q, Merge(i, Merge(d, Merge(c, Merge(l, Merge(pr, f))))))) :
        n \in Optional("name", Names),
        q \in Optional("queryText", {<<>>, <<"q">>}),
        i \in Optional("id", {"v1"}),
        d \in Optional("description", {"d"}),
        c \in Optional("capacity", {0, 3}),
        l \in Optional("location", Locations),
        pr \in Optional("prices", {[coke |-> 1], [coke |-> 1, beer |-> 3]}),
        f \in Optional("fees", {[entrance |-> 0], [entrance |-> 3]})}

Images(n) == [i \in 1..n |-> [_id |-> i, mime |-> "image/png"]]

\* The document the store holds for a serialized payload: it has an _id
\* and, populated, its images; an imported venue has a sourceId.
StoredVenue(d, n, imported) ==
    LET withId == IF Has(d, "_id") THEN d ELSE Set(d, "_id", "v0")
        withImages == IF n > 0 THEN Set(withId, "images", Images(n)) ELSE withId
    IN IF imported THEN Set(withImages, "sourceId", "s1") ELSE withImages

\* The heap holding venue value `venue' as the store hands it to a caller:
\* live mongoose documents (isDoc) or plain objects.
Load(venue, isDoc) ==
    LET mark(obj) == IF isDoc THEN Set(obj, "toObject", "function") ELSE obj
        h1 == IF Has(venue, "location") THEN <<venue.location>> ELSE <<>>
        imgs == ImageRefs(venue)
        h2 == h1 \o [i \in 1..Len(imgs) |-> mark(imgs[i])]
        root == [k \in DOMAIN venue |->
                   IF k = "location" THEN Ref(1)
                   ELSE IF k = "images"
                        THEN [i \in 1..Len(imgs) |-> Ref(Len(h1) + i)]
                   ELSE venue[k]]
    IN [heap |-> Append(h2, mark(root)), ref |-> Len(h2) + 1]

\* The addresses of the object graph at address a.
Reachable(heap, a) ==
    {a} \cup (IF Has(heap[a], "location") THEN {heap[a].location.ref} ELSE {})
        \cup {ImageRefs(heap[a])[i].ref : i \in 1..Len(ImageRefs(heap[a]))}

\* What a call left behind: the caller's heap before and after, the
\* addresses of the returned structure, and the outcome.
DeserRecord(fn, before, arg, r) ==
    [fn |-> fn, heap |-> before, arg |-> arg,
     after |-> SubSeq(r.heap, 1, Len(before)),
     returned |-> Reachable(r.heap, r.ref),
     outcome |-> IF r.threw THEN Thrown(r.error)
                 ELSE Returned(Resolve(r.heap, r.ref))]

DeserializeCall(l) ==
    DeserRecord("deserialize", l.heap, l.ref, deserialize(l.heap, l.ref))

ImageResult(r) == [heap |-> r.heap, ref |-> r.ref, threw |-> FALSE, error |-> ""]

DeserializeImageCall(l, i) ==
    DeserRecord("deserializeImage", l.heap, l.heap[l.ref].images[i].ref,
                ImageResult(deserializeImage(l.heap, l.heap[l.ref].images[i].ref)))

InitSerialize ==
    /\ VENUE_CAPACITY_RANGES = DefaultRanges
    /\ cityConfigs = [c \in {TheCity} |-> Conf(DefaultRanges, DefaultRanges, DefaultRanges)]
    /\ rangeCall = NoCall
    /\ data \in Payloads
    /\ doc = NotCalled
    /\ deser = NoDeser
    /\ HttpIdle
    /\ EventsIdle
    /\ AuthIdle

CallSerialize ==
    /\ doc = NotCalled
    /\ SerializeBody(data)
    /\ UNCHANGED <<confVars, rangeCall, deser, httpVars, eventVars, authVars>>

CallDeserialize ==
    /\ doc # NotCalled /\ ~doc.outcome.threw
    /\ deser = NoDeser
    /\ \E n \in 0..MaxImages, imported \in BOOLEAN, isDoc \in BOOLEAN :
         deser' = DeserializeCall(Load(StoredVenue(doc.outcome.value, n, imported), isDoc))
    /\ UNCHANGED <<confVars, rangeCall, data, doc, httpVars, eventVars, authVars>>

CallDeserializeImage ==
    /\ doc # NotCalled /\ ~doc.outcome.threw
    /\ deser = NoDeser
    /\ \E n \in 1..MaxImages, isDoc \in BOOLEAN :
         \E i \in 1..n :
           deser' = DeserializeImageCall(Load(StoredVenue(doc.outcome.value, n, FALSE), isDoc), i)
    /\ UNCHANGED <<confVars, rangeCall, data, doc, httpVars, eventVars, authVars>>

NextSerialize == CallSerialize \/ CallDeserialize \/ CallDeserializeImage

SpecSerialize == InitSerialize /\ [][NextSerialize]_vars

---------------------------------------------------------------------------
(* Claims about the serializer and deserializer (checked under             *)
(* SpecSerialize)                                                          *)

Serialized == doc # NotCalled /\ ~doc.outcome.threw

\* C4 (as stated in the specification): serialize applied to the payload
\* {name: "X"} produces exactly {name: "X", queryText: "x"}.
C4_LowercasedQueryText ==
    (doc # NotCalled /\ doc.arg = [name |-> <<"X">>])
        => doc.outcome = Returned([name |-> <<"X">>, queryText |-> <<"x">>])

\* C4 (amended): serialize applied to the payload {name: "X"} produces
\* exactly {name: "X", queryText: "X"} (the name transliterated to ASCII,
\* its case kept); and every key of a document serialize produces is a key
\* the payload had, or the derived queryText or priceClass, or _id renamed
\* from a submitted id, and the location keeps exactly the keys submitted.
\* The document is the payload object itself, written in place.
C4_OnlyDerivedKeysAdded ==
    /\ (doc # NotCalled /\ doc.arg = [name |-> <<"X">>])
          => doc.outcome = Returned([name |-> <<"X">>, queryText |-> <<"X">>])
    /\ Serialized =>
         /\ data = doc.outcome.value
         /\ \A k \in DOMAIN doc.outcome.value :
              \/ k \in DOMAIN doc.arg
              \/ k \in {"queryText", "priceClass"}
              \/ (k = "_id" /\ Has(doc.arg, "id"))
         /\ Has(doc.outcome.value, "priceClass") => Has(doc.arg, "prices")
         /\ Has(doc.outcome.value, "location") =>
              DOMAIN doc.outcome.value.location = DOMAIN doc.arg.location

\* The payload {name: "X"} has been serialized to a two-key document.
C4_Witness ==
    /\ Serialized
    /\ doc.arg = [name |-> <<"X">>]
    /\ DOMAIN doc.outcome.value = {"name", "queryText"}

DeserializedVenue ==
    deser.fn = "deserialize" /\ ~deser.outcome.threw

\* C7: a coordinate pair {longitude, latitude} of a payload's location is
\* serialized to {type: "Point", coordinates: [longitude, latitude]}, two
\* coordinates with the longitude first, and deserialize of the stored
\* document gives back {longitude, latitude} equal to the submitted pair.
C7_GeoPointRoundTrip ==
    (Serialized /\ Has(doc.arg, "location") /\ Has(doc.arg.location, "coordinates"))
      => /\ doc.outcome.value.location.coordinates =
              [type |-> "Point",
               coordinates |-> <<doc.arg.location.coordinates.longitude,
                                 doc.arg.location.coordinates.latitude>>]
         /\ Len(doc.outcome.value.location.coordinates.coordinates) = 2
         /\ DeserializedVenue =>
              deser.outcome.value.location.coordinates = doc.arg.location.coordinates

\* The pair (10, 55) went through serialize and deserialize.
C7_Witness ==
    /\ Serialized /\ Has(doc.arg, "location") /\ Has(doc.arg.location, "coordinates")
    /\ doc.arg.location.coordinates = [longitude |-> 10, latitude |-> 55]
    /\ doc.outcome.value.location.coordinates.coordinates = <<10, 55>>
    /\ DeserializedVenue
    /\ deser.outcome.value.location.coordinates.longitude = 10

\* C8: a call of deserialize or deserializeImage leaves every object the
\* caller holds as it was; the structure it returns shares no object with
\* the caller's; a returned venue carries the stored _id as id and has no
\* _id, sourceId or queryText, and its images and a returned image carry
\* their _id as id and have no _id.
C8_CallerObjectUntouched ==
    deser.fn # "none" =>
      /\ deser.after = deser.heap
      /\ deser.returned \cap (1..Len(deser.heap)) = {}
      /\ ~deser.outcome.threw =>
           LET out == deser.outcome.value
               arg == deser.heap[deser.arg]
           IN /\ out.id = arg._id
              /\ ~Has(out, "_id")
              /\ deser.fn = "deserialize" =>
                   /\ ~Has(out, "sourceId") /\ ~Has(out, "queryText")
                   /\ Has(out, "images") =>
                        \A i \in 1..Len(out.images) :
                          /\ out.images[i].id = deser.heap[arg.images[i].ref]._id
                          /\ ~Has(out.images[i], "_id")

\* deserialize returned for a plain (non-document) stored venue that has a
\* geo-point, fees, images and a sourceId.
C8_Witness ==
    /\ DeserializedVenue
    /\ ~Has(deser.heap[deser.arg], "toObject")
    /\ Has(deser.heap[deser.arg], "sourceId")
    /\ Has(deser.heap[deser.arg], "fees")
    /\ Has(deser.heap[deser.arg], "images")
    /\ Has(deser.heap[deser.heap[deser.arg].location.ref], "coordinates")
    /\ Has(deser.outcome.value, "id")

---------------------------------------------------------------------------
(* Venue router: the handlers of /venues over the venue collection.  A     *)
(* handler is an async function: it runs to its first await, returns to    *)
(* the event loop, and resumes when the awaited repository call has        *)
(* completed; in between the handlers of other requests run.  An action    *)
(* is the arrival of a request (the handler up to its first await) or the  *)
(* completion of the awaited repository call with the handler's            *)
(* continuation up to its next await or its response.  requests[s].pc      *)
(* names the repository call the handler in slot s awaits.                 *)

\* venueRepository.createVenue(doc): stores the document under its _id, the
\* generated id when the document has none.
createVenue(store, id, d) ==
    Set(store, IF Has(d, "_id") THEN d._id ELSE id,
        IF Has(d, "_id") THEN d ELSE Set(d, "_id", id))

\* venueRepository.updateVenue(id, doc, {omitUndefined: true}): sets the
\* fields the document has and leaves the other stored fields as they are;
\* no venue is stored for an unknown id.
updateVenue(store, venueId, d) ==
    IF ~Has(store, venueId) THEN store
    ELSE Set(store, venueId,
             [k \in DOMAIN store[venueId] \cup DOMAIN d |->
                 IF k \in DOMAIN d THEN d[k] ELSE store[venueId][k]])

\* venueRepository.deleteVenue(id)
deleteVenue(store, venueId) == Delete(store, venueId)

\* The image document the store makes of an upload: of a file
\* ({buffer, mime}) or of an image given by its url.
NewImage(store, venueId, upload) ==
    Set(upload, "_id",
        IF Has(store, venueId) /\ Has(store[venueId], "images")
        THEN Len(store[venueId].images) + 1 ELSE 1)

\* The store with the image appended to the venue's images.
StoreImage(store, venueId, upload) ==
    IF ~Has(store, venueId) THEN store
    ELSE Set(store, venueId,
             Set(store[venueId], "images",
                 Append(ImageRefs(store[venueId]), NewImage(store, venueId, upload))))

\* venueRepository.uploadVenueImage(id, {buffer, mime})
uploadVenueImage(store, venueId, file) == StoreImage(store, venueId, file)

\* venueRepository.uploadVenueImageByUrl(id, image)
uploadVenueImageByUrl(store, venueId, image) == StoreImage(store, venueId, image)

\* The value a call of deserialize returned, or the error it threw.
Outcome(r) ==
    IF r.threw THEN Thrown(r.error) ELSE Returned(Resolve(r.heap, r.ref))

deserializeLoaded(l) == deserialize(l.heap, l.ref)

\* venue.deserialize() of a stored document / deserialize(venue) of a plain
\* query result: what the client is sent, or the error thrown.
deserializeStored(venue, isDoc) == Outcome(deserializeLoaded(Load(venue, isDoc)))

\* image.deserialize() of an uploaded image document.
ImageView(r) == r.heap[r.ref]

deserializeUploaded(image) ==
    ImageView(deserializeImage(<<Set(image, "toObject", "function")>>, 1))

\* asyncMiddleware: a handler's result is sent, a thrown error goes to the
\* error handler.  The response names the method of the request it answers.
Respond(method, status, outcome) ==
    IF outcome.threw THEN [method |-> method, ok |-> FALSE, error |-> outcome.error]
    ELSE [method |-> method, ok |-> TRUE, status |-> status, body |-> outcome.value]

Fail(method, error) == [method |-> method, ok |-> FALSE, error |-> error]

\* The ids the store generates, in the order it generates them.
VenueIds == 1..MaxVenues

\* Bodies of POST /venues and PUT /venues/:venueId.
VenuePayloads ==
    {Merge(n, Merge(d, Merge(l, pr))) :
        n \in Optional("name", {<<"E-acute">>}),
        d \in Optional("description", {"d"}),
        l \in Optional("location",
                       {CityLocation,
                        Set(CityLocation, "coordinates",
                            [longitude |-> 10, latitude |-> 55])}),
        pr \in Optional("prices", {[coke |-> 1]})}

\* validator.validate('post', '/venues'): a venue is created with a name and
\* the country and city of its location.
CreatePayloads == {b \in VenuePayloads : Has(b, "name") /\ HasCountryAndCity(b)}

\* The handler of slot s goes on as h; the other slots stay.
Goes(s, h) == requests' = [requests EXCEPT ![s] = h]

\* The handler of slot s sends r and ends.
Sends(s, r) ==
    /\ response' = r
    /\ requests' = [requests EXCEPT ![s] = Idle]

\* Venue ids the store has yet to generate for the POSTs in progress.
Creating == Cardinality({t \in Slots : requests[t].pc = "createVenue"})

\* router.post('/'), lines 98-100: serialize(req.body) writes into the body;
\* createVenue is called with it.
PostVenue ==
    \E s \in Slots, body \in CreatePayloads :
      /\ requests[s].pc = "idle"
      /\ created + Creating < MaxVenues
      /\ IF serialize(body).threw
         THEN Sends(s, Fail("POST", serialize(body).error))
         ELSE /\ Goes(s, [pc |-> "createVenue", method |-> "POST", path |-> "/",
                          body |-> Mutated(body)])
              /\ response' = response
      /\ UNCHANGED <<confVars, pureVars, venues, created, eventVars, authVars>>

\* Lines 100-102: the venue is created; the handler answers with it.
PostVenueCreated ==
    \E s \in Slots :
      /\ requests[s].pc = "createVenue"
      /\ created' = created + 1
      /\ venues' = createVenue(venues, created', requests[s].body)
      /\ Sends(s, Respond("POST", 201, deserializeStored(venues'[created'], TRUE)))
      /\ UNCHANGED <<confVars, pureVars, eventVars, authVars>>

\* router.get('/:venueId'), line 111.
GetVenue ==
    \E s \in Slots, venueId \in VenueIds :
      /\ requests[s].pc = "idle"
      /\ Goes(s, [pc |-> "getVenue", method |-> "GET", path |-> "/:venueId",
                  venueId |-> venueId])
      /\ UNCHANGED <<confVars, pureVars, venues, created, response, eventVars, authVars>>

\* Lines 115-119.
GetVenueFound ==
    \E s \in Slots :
      /\ requests[s].pc = "getVenue"
      /\ requests[s].method = "GET"
      /\ Sends(s, IF ~Has(venues, requests[s].venueId)
                  THEN Fail("GET", "venue_not_found")
                  ELSE Respond("GET", 200,
                               deserializeStored(venues[requests[s].venueId], TRUE)))
      /\ UNCHANGED <<confVars, pureVars, venues, created, eventVars, authVars>>

\* Lines 25-32: the fields asked of the store when the query names none.
DefaultFields == {"name", "description", "categories", "location", "website", "facebook"}

\* venueRepository.getVenues({fields, populate, ...}): of each stored venue
\* its _id, the fields asked for and the populated images, as plain objects
\* in the order of the ids.
Project(venue, fields) ==
    [k \in DOMAIN venue \cap (fields \cup {"_id", "images"}) |-> venue[k]]

RECURSIVE getVenues(_, _, _)
getVenues(store, fields, id) ==
    IF id > MaxVenues THEN <<>>
    ELSE (IF Has(store, id) THEN <<Project(store[id], fields)>> ELSE <<>>)
         \o getVenues(store, fields, id + 1)

\* results.map(venueRepository.deserialize): the views in order, or the
\* error of the first venue deserialize throws for.
FirstThrownOrAll(each) ==
    IF \E i \in DOMAIN each : each[i].threw
    THEN each[CHOOSE i \in DOMAIN each :
                /\ each[i].threw
                /\ \A j \in DOMAIN each : each[j].threw => i <= j]
    ELSE Returned([i \in DOMAIN each |-> each[i].value])

MapDeserialize(results) ==
    FirstThrownOrAll([i \in 1..Len(results) |-> deserializeStored(results[i], FALSE)])

\* res.json({results, offset, limit, totalCount}), lines 85-90.
ListResponse(views, totalCount) ==
    IF views.threw THEN Fail("GET", views.error)
    ELSE [method |-> "GET", ok |-> TRUE, status |-> 200,
          body |-> [results |-> views.value, offset |-> 0,
                    limit |-> 20, totalCount |-> totalCount]]

ListOf(results) == ListResponse(MapDeserialize(results), Len(results))

\* router.get('/'), lines 23-35, with the default offset, limit and
\* populate; req.query.fields is absent or names fields.
GetVenues ==
    \E s \in Slots, fields \in {DefaultFields, {"name", "location", "prices"}} :
      /\ requests[s].pc = "idle"
      /\ Goes(s, [pc |-> "getVenues", method |-> "GET", path |-> "/",
                  fields |-> fields])
      /\ UNCHANGED <<confVars, pureVars, venues, created, response, eventVars, authVars>>

\* Lines 85-90.
GetVenuesFound ==
    \E s \in Slots :
      /\ requests[s].pc = "getVenues"
      /\ Sends(s, ListOf(getVenues(venues, requests[s].fields, 1)))
      /\ UNCHANGED <<confVars, pureVars, venues, created, eventVars, authVars>>

\* router.put('/:venueId'), lines 128-129: serialize(req.body) writes into
\* the body, or throws; updateVenue is called with it.
PutVenue ==
    \E s \in Slots, venueId \in VenueIds, body \in VenuePayloads :
      /\ requests[s].pc = "idle"
      /\ IF serialize(body).threw
         THEN Sends(s, Fail("PUT", serialize(body).error))
         ELSE /\ Goes(s, [pc |-> "updateVenue", method |-> "PUT", path |-> "/:venueId",
                          venueId |-> venueId, body |-> Mutated(body)])
              /\ response' = response
      /\ UNCHANGED <<confVars, pureVars, venues, created, eventVars, authVars>>

\* Lines 129-133: the update is made; updateVenue resolves to the updated
\* venue, to null when none is stored, and null.deserialize() is a TypeError.
PutVenueUpdated ==
    \E s \in Slots :
      /\ requests[s].pc = "updateVenue"
      /\ venues' = updateVenue(venues, requests[s].venueId, requests[s].body)
      /\ Sends(s, IF ~Has(venues, requests[s].venueId)
                  THEN Fail("PUT", "TypeError")
                  ELSE Respond("PUT", 200,
                               deserializeStored(venues'[requests[s].venueId], TRUE)))
      /\ UNCHANGED <<confVars, pureVars, created, eventVars, authVars>>

\* router.delete('/:venueId'), line 142.
DeleteVenue ==
    \E s \in Slots, venueId \in VenueIds :
      /\ requests[s].pc = "idle"
      /\ Goes(s, [pc |-> "getVenue", method |-> "DELETE", path |-> "/:venueId",
                  venueId |-> venueId])
      /\ UNCHANGED <<confVars, pureVars, venues, created, response, eventVars, authVars>>

\* Lines 144-148.
DeleteVenueFound ==
    \E s \in Slots :
      /\ requests[s].pc = "getVenue"
      /\ requests[s].method = "DELETE"
      /\ IF ~Has(venues, requests[s].venueId)
         THEN Sends(s, Fail("DELETE", "venue_not_found"))
         ELSE /\ Goes(s, [requests[s] EXCEPT !.pc = "deleteVenue"])
              /\ response' = response
      /\ UNCHANGED <<confVars, pureVars, venues, created, eventVars, authVars>>

\* Lines 148-150.
DeleteVenueDeleted ==
    \E s \in Slots :
      /\ requests[s].pc = "deleteVenue"
      /\ venues' = deleteVenue(venues, requests[s].venueId)
      /\ Sends(s, [method |-> "DELETE", ok |-> TRUE, status |-> 200,
                   body |-> [success |-> TRUE]])
      /\ UNCHANGED <<confVars, pureVars, created, eventVars, authVars>>

\* Images stored for a venue, and images the uploads in progress will add.
StoredImages(venueId) ==
    IF Has(venues, venueId) THEN Len(ImageRefs(venues[venueId])) ELSE 0

Uploading(t, venueId) ==
    IF /\ requests[t].pc \in {"getVenue", "uploadVenueImage"}
       /\ requests[t].path = "/:venueId/images"
       /\ requests[t].venueId = venueId
    THEN Cardinality(requests[t].pending)
    ELSE 0

\* What a request uploads: req.files, the files of a multipart request
\* (none, one or more), or, req.files being absent, the images that
\* req.body.images names by url.
ImageUploads ==
    {[hasFiles |-> TRUE, uploads |-> [i \in 1..n |-> [mime |-> "image/png"]]] :
        n \in 0..MaxImages}
    \cup {[hasFiles |-> FALSE, uploads |-> [i \in 1..n |-> [url |-> "a.jpg"]]] :
             n \in 0..MaxImages}

\* router.post('/:venueId/images'), line 160.  pending are the uploads that
\* have not settled, by their index in the list.
PostImages ==
    \E s \in Slots, venueId \in VenueIds, req \in ImageUploads :
      /\ requests[s].pc = "idle"
      /\ \A t \in Slots \ {s} :
           StoredImages(venueId) + Uploading(t, venueId) + Len(req.uploads) <= MaxImages
      /\ Goes(s, [pc |-> "getVenue", method |-> "POST", path |-> "/:venueId/images",
                  venueId |-> venueId, hasFiles |-> req.hasFiles,
                  uploads |-> req.uploads, pending |-> DOMAIN req.uploads,
                  images |-> <<>>])
      /\ UNCHANGED <<confVars, pureVars, venues, created, response, eventVars, authVars>>

\* Lines 162-180: an unknown venue is a NotFoundError; otherwise the uploads
\* of req.files, or of req.body.images by url, are all started and the
\* handler awaits them.
PostImagesFound ==
    \E s \in Slots :
      /\ requests[s].pc = "getVenue"
      /\ requests[s].method = "POST"
      /\ IF ~Has(venues, requests[s].venueId)
         THEN Sends(s, Fail("POST", "venue_not_found"))
         ELSE /\ Goes(s, [requests[s] EXCEPT !.pc = "uploadVenueImage"])
              /\ response' = response
      /\ UNCHANGED <<confVars, pureVars, venues, created, eventVars, authVars>>

\* Lines 168-178: one of the uploads in progress settles, in any order
\* (uploadVenueImage for a file, uploadVenueImageByUrl for an image of the
\* body); its promise holds the image document.
PostImagesUploaded ==
    \E s \in Slots :
      /\ requests[s].pc = "uploadVenueImage"
      /\ \E i \in requests[s].pending :
           LET venueId == requests[s].venueId
               upload == requests[s].uploads[i]
           IN /\ venues' = IF requests[s].hasFiles
                           THEN uploadVenueImage(venues, venueId, upload)
                           ELSE uploadVenueImageByUrl(venues, venueId, upload)
              /\ Goes(s, [requests[s] EXCEPT
                             !.pending = @ \ {i},
                             !.images = Set(@, i, NewImage(venues, venueId, upload))])
      /\ UNCHANGED <<confVars, pureVars, created, response, eventVars, authVars>>

\* images.map(image => image.deserialize()) and the response, lines 181-183.
ImageViews(images) ==
    [method |-> "POST", ok |-> TRUE, status |-> 200,
     body |-> [results |-> [i \in DOMAIN images |-> deserializeUploaded(images[i])]]]

\* Lines 180-183: Promise.all resolves once every upload has settled, at
\* once when there is none; the handler answers with the images in the
\* order of the uploads.
PostImagesAll ==
    \E s \in Slots :
      /\ requests[s].pc = "uploadVenueImage"
      /\ requests[s].pending = {}
      /\ Sends(s, ImageViews(requests[s].images))
      /\ UNCHANGED <<confVars, pureVars, venues, created, eventVars, authVars>>

InitVenue ==
    /\ VENUE_CAPACITY_RANGES = DefaultRanges
    /\ cityConfigs = [c \in {TheCity} |-> Conf(DefaultRanges, DefaultRanges, DefaultRanges)]
    /\ PureIdle
    /\ HttpIdle
    /\ EventsIdle
    /\ AuthIdle

NextVenue ==
    \/ PostVenue \/ PostVenueCreated
    \/ GetVenue \/ GetVenueFound
    \/ GetVenues \/ GetVenuesFound
    \/ PutVenue \/ PutVenueUpdated
    \/ DeleteVenue \/ DeleteVenueFound \/ DeleteVenueDeleted
    \/ PostImages \/ PostImagesFound \/ PostImagesUploaded \/ PostImagesAll

SpecVenue == InitVenue /\ [][NextVenue]_vars

\* C5 (as stated in the specification): a partial update of a stored venue
\* does not fail when its payload has no name: no PUT is answered with an
\* error on arrival (by the serializer), and the update is answered with the
\* venue.
\* The update leaves every stored field untouched that the document written
\* does not carry, and the document carries the derived queryText only with
\* a name and priceClass only with prices, country and city.
C5_PartialUpdateFrame ==
    [][/\ (/\ requests' = requests /\ response' # response
           /\ response'.method = "PUT"
           /\ \A venueId \in VenueIds : Has(venues, venueId))
            => response'.ok
       /\ \A s \in Slots :
            (/\ requests[s].pc = "updateVenue"
             /\ requests'[s].pc = "idle"
             /\ Has(venues, requests[s].venueId))
              => /\ response'.ok
                 /\ \A k \in DOMAIN venues[requests[s].venueId] \ DOMAIN requests[s].body :
                      /\ Has(venues'[requests[s].venueId], k)
                      /\ venues'[requests[s].venueId][k] = venues[requests[s].venueId][k]
                 /\ Has(requests[s].body, "queryText") => Has(requests[s].body, "name")
                 /\ Has(requests[s].body, "priceClass") =>
                      Has(requests[s].body, "prices") /\ HasCountryAndCity(requests[s].body)
      ]_vars

---------------------------------------------------------------------------
(* PUT /venues/:venueId/facebook-events.  The handler awaits the venue,    *)
(* and for each submitted event the stored event, the serializer and the   *)
(* upsert; the handlers of other requests run while it waits.  The model   *)
(* follows two requests, one per slot, from an empty event collection:     *)
(* they arrive in either order, one after the other has been answered or   *)
(* while it is in progress.                                                *)

\* A date's `from' as submitted: a local time t with a UTC offset tz.
\* new Date(from).getTime() is the instant it denotes.
getTime(from) == from.t - from.tz

\* A `from' as the store holds it: a Date, the instant alone.
ToDate(from) == [t |-> getTime(from), tz |-> 0]

\* Lines 212-213.
datesEqual(a, b) == getTime(a.from) = getTime(b.from)

\* _.find(collection, predicate) is truthy: some element matches a.
FindEqual(collection, a) ==
    \E i \in 1..Len(collection) : datesEqual(collection[i], a)

\* Lines 216-221.
RECURSIVE ExistingDatesNotInUpdate(_, _)
ExistingDatesNotInUpdate(existingDates, dates) ==
    IF existingDates = <<>> THEN <<>>
    ELSE (IF FindEqual(dates, Head(existingDates)) THEN <<>>
          ELSE <<Head(existingDates)>>)
         \o ExistingDatesNotInUpdate(Tail(existingDates), dates)

\* Lines 222-228: the submitted date found that matches no existing one.
DatesChanged(existingDates, dates) ==
    \E i \in 1..Len(dates) : ~FindEqual(existingDates, dates[i])

\* Insert date d into the sorted list, after the dates not later than it.
RECURSIVE InsertByFrom(_, _)
InsertByFrom(sorted, d) ==
    IF sorted = <<>> THEN <<d>>
    ELSE IF getTime(Head(sorted).from) - getTime(d.from) <= 0
         THEN <<Head(sorted)>> \o InsertByFrom(Tail(sorted), d)
         ELSE <<d>> \o sorted

\* Lines 230-234: array.sort((a, b) => new Date(a.from) - new Date(b.from)),
\* a stable sort.
RECURSIVE SortByFrom(_)
SortByFrom(arr) ==
    IF arr = <<>> THEN <<>>
    ELSE InsertByFrom(SortByFrom(SubSeq(arr, 1, Len(arr) - 1)), arr[Len(arr)])

\* Lines 209-235: the dates to write for a submitted event.
MergeDates_replace(existingEvent, dates) == dates

MergeDates(existingEvent, dates) ==
    IF existingEvent.kind = "null" THEN dates
    ELSE SortByFrom(ExistingDatesNotInUpdate(existingEvent.dates, dates) \o dates)

\* Lines 210-239: event.facebook with the datesChanged mark.
MarkFacebook(existingEvent, event) ==
    IF existingEvent.kind # "null" /\ DatesChanged(existingEvent.dates, event.dates)
    THEN Set(event.facebook, "datesChanged", TRUE)
    ELSE event.facebook

\* Lines 241-250: the object handed to eventRepository.serialize.
EventData(existingEvent, event, venueId) ==
    [facebook |-> MarkFacebook(existingEvent, event),
     dates |-> MergeDates(existingEvent, event.dates),
     location |-> [type |-> "venue"],
     organiser |-> [venue |-> venueId]]

\* eventRepository.getEventByFbId(id, {fields: ['dates']})
getEventByFbId(store, id) ==
    IF Has(store, id) THEN [kind |-> "object", dates |-> store[id].dates]
    ELSE Null

\* eventRepository.updateEvent({'facebook.id': id}, data, {upsert: true}):
\* the document of that facebook id becomes data, its dates cast to Date.
updateEvent(store, d) ==
    Set(store, d.facebook.id,
        [d EXCEPT !.dates = [i \in 1..Len(d.dates) |-> [from |-> ToDate(d.dates[i].from)]]])

FbIds == {"fb1", "fb2"}

Froms == {[t |-> 2, tz |-> 1], [t |-> 2, tz |-> 0]}

DateLists(n) == UNION {[1..k -> {[from |-> f] : f \in Froms}] : k \in 0..n}

FbEvents(n) == {[facebook |-> [id |-> i], dates |-> ds] : i \in FbIds, ds \in DateLists(n)}

\* Request bodies: no event, one event, or two events that have a date
\* each, with at most MaxDates dates in all.
FbBodies ==
    {<<>>}
    \cup {<<e>> : e \in FbEvents(MaxDates)}
    \cup UNION {{<<d>> \o <<e>> : d \in FbEvents(n) \ FbEvents(n - 1),
                                 e \in FbEvents(MaxDates - n) \ FbEvents(0)} :
                n \in 1..MaxDates}

FbGoes(s, h) == fbHandler' = [fbHandler EXCEPT ![s] = h]

\* The handler of slot s sends r and ends; its request has been answered.
FbSends(s, r) ==
    /\ response' = r
    /\ fbHandler' = [fbHandler EXCEPT ![s] = [pc |-> "answered"]]

\* Line 195: the request arrives; the venue is asked for.
FbBegin ==
    \E s \in Slots, venueId \in 0..created, body \in FbBodies :
      /\ fbHandler[s].pc = "idle"
      /\ FbGoes(s, [pc |-> "getVenue", venueId |-> venueId, queue |-> body])
      /\ UNCHANGED <<confVars, pureVars, httpVars, events, authVars>>

\* Line 258: res.status(200).end()
FbEnd == [method |-> "PUT", ok |-> TRUE, status |-> 200]

\* Lines 197-202 and 258: an unknown venue is a NotFoundError; with no event
\* submitted the loop is over at once and the handler answers; otherwise
\* the stored event of the first submitted event is asked for.
FbVenueFound ==
    \E s \in Slots :
      /\ fbHandler[s].pc = "getVenue"
      /\ IF ~Has(venues, fbHandler[s].venueId)
         THEN FbSends(s, Fail("PUT", "venue_not_found"))
         ELSE IF fbHandler[s].queue = <<>>
         THEN FbSends(s, FbEnd)
         ELSE /\ FbGoes(s, [fbHandler[s] EXCEPT !.pc = "getEventByFbId"])
              /\ response' = response
      /\ UNCHANGED <<confVars, pureVars, venues, created, requests, events, authVars>>

\* The handler with the stored event it was given and the data it made of
\* it; line 238 writes the mark into the submitted event itself.
WithExisting(h, existingEvent) ==
    [pc |-> "serialize", venueId |-> h.venueId,
     queue |-> <<[Head(h.queue) EXCEPT !.facebook = MarkFacebook(existingEvent, Head(h.queue))]>>
               \o Tail(h.queue),
     existingEvent |-> existingEvent,
     data |-> EventData(existingEvent, Head(h.queue), h.venueId)]

\* Lines 202-241: the stored dates arrive; the dates to write and the
\* datesChanged mark are computed and handed to the serializer.
FbGetEvent ==
    \E s \in Slots :
      /\ fbHandler[s].pc = "getEventByFbId"
      /\ FbGoes(s, WithExisting(fbHandler[s],
                                getEventByFbId(events, Head(fbHandler[s].queue).facebook.id)))
      /\ UNCHANGED <<confVars, pureVars, httpVars, events, authVars>>

\* Lines 241-251: eventRepository.serialize resolves; the upsert is called.
FbSerialize ==
    \E s \in Slots :
      /\ fbHandler[s].pc = "serialize"
      /\ FbGoes(s, [fbHandler[s] EXCEPT !.pc = "updateEvent"])
      /\ UNCHANGED <<confVars, pureVars, httpVars, events, authVars>>

\* Lines 251-258 and 201-202: the upsert is made; the stored event of the
\* next submitted event is asked for, or the loop is over and the handler
\* answers.
FbUpdateEvent ==
    \E s \in Slots :
      /\ fbHandler[s].pc = "updateEvent"
      /\ events' = updateEvent(events, fbHandler[s].data)
      /\ IF Len(fbHandler[s].queue) > 1
         THEN /\ FbGoes(s, [pc |-> "getEventByFbId", venueId |-> fbHandler[s].venueId,
                            queue |-> Tail(fbHandler[s].queue)])
              /\ response' = response
         ELSE FbSends(s, FbEnd)
      /\ UNCHANGED <<confVars, pureVars, venues, created, requests, authVars>>

InitEvents ==
    /\ VENUE_CAPACITY_RANGES = DefaultRanges
    /\ cityConfigs = [c \in {TheCity} |-> Conf(DefaultRanges, DefaultRanges, DefaultRanges)]
    /\ PureIdle
    /\ created = 1
    /\ venues = createVenue(EmptyObject, created,
                            [name |-> <<"X">>, queryText |-> <<"X">>,
                             location |-> CityLocation])
    /\ requests = [s \in Slots |-> Idle]
    /\ response = NoResponse
    /\ EventsIdle
    /\ AuthIdle

NextEvents ==
    FbBegin \/ FbVenueFound \/ FbGetEvent \/ FbSerialize \/ FbUpdateEvent

SpecEvents == InitEvents /\ [][NextEvents]_vars

\* Instants of the dates of a list.
Instants(dates) == {getTime(dates[i].from) : i \in 1..Len(dates)}

\* Number of dates of a list that start at instant t.
CountAt(dates, t) == Cardinality({i \in 1..Len(dates) : getTime(dates[i].from) = t})

IsAscendingByFrom(dates) ==
    \A i \in 1..Len(dates), j \in 1..Len(dates) :
        i < j => getTime(dates[i].from) <= getTime(dates[j].from)

StoredDates(store, id) == IF Has(store, id) THEN store[id].dates ELSE <<>>

MarkedChanged(facebook) ==
    Has(facebook, "datesChanged") /\ facebook.datesChanged = TRUE

\* The dates `written' are the submitted ones and the stored ones whose
\* instant no submitted date has, ascending by instant.
IsMerge(written, stored, submitted) ==
    /\ IsAscendingByFrom(written)
    /\ \A t \in Instants(stored) \cup Instants(submitted) \cup Instants(written) :
         CountAt(written, t) =
           CountAt(submitted, t)
           + (IF t \in Instants(submitted) THEN 0 ELSE CountAt(stored, t))

\* What the handler of slot s made of the stored event it was given
\* (lines 209-250): the dates and the mark it hands on to be written.
ReadStep(s) ==
    LET event == Head(fbHandler[s].queue)
        id == event.facebook.id
        d == fbHandler'[s].data
    IN /\ d.facebook.id = id
       /\ Has(events, id) =>
            /\ IsMerge(d.dates, events[id].dates, event.dates)
            /\ Instants(events[id].dates) \subseteq Instants(d.dates)
       /\ ~Has(events, id) => d.dates = event.dates
       /\ MarkedChanged(d.facebook) <=>
            (Has(events, id) /\ ~(Instants(event.dates) \subseteq Instants(events[id].dates)))
       /\ MarkedChanged(Head(fbHandler'[s].queue).facebook) <=> MarkedChanged(d.facebook)

\* What the upsert of the handler of slot s leaves in the store when the
\* stored event is still the one the handler read, as it is when requests
\* are processed one after another.
WriteStep(s) ==
    LET id == fbHandler[s].data.facebook.id
        read == fbHandler[s].existingEvent
        submitted == Head(fbHandler[s].queue).dates
    IN getEventByFbId(events, id) = read =>
         /\ Instants(StoredDates(events, id)) \subseteq Instants(StoredDates(events', id))
         /\ Has(events, id) => IsMerge(events'[id].dates, events[id].dates, submitted)

\* C9: for each submitted event whose facebook id is stored, the dates the
\* handler has written by the upsert are the submitted dates plus every
\* stored date whose `from' instant equals no submitted one, ascending by
\* `from', and facebook.datesChanged is set exactly when the id was stored
\* and some submitted instant matches no stored one; hence, requests being
\* processed one after another, the upsert never takes a `from' instant out
\* of the store.
C9_DateMerge ==
    [][\A s \in Slots :
         /\ (fbHandler[s].pc = "getEventByFbId" /\ fbHandler'[s].pc = "serialize")
              => ReadStep(s)
         /\ (fbHandler[s].pc = "updateEvent" /\ fbHandler'[s].pc # "updateEvent")
              => WriteStep(s)
      ]_vars

\* A request has been answered and an event is stored with more dates than
\* one request submits, marked datesChanged: an upsert has kept the dates
\* stored before it and added an earlier and so far unknown one.
C9_Witness ==
    /\ response = FbEnd
    /\ \E s \in Slots : fbHandler[s].pc = "answered"
    /\ \E id \in FbIds :
         /\ Has(events, id)
         /\ Len(events[id].dates) > MaxDates
         /\ Cardinality(Instants(events[id].dates)) > 1
         /\ IsAscendingByFrom(events[id].dates)
         /\ MarkedChanged(events[id].facebook)

---------------------------------------------------------------------------
(* jwtAuth(required): an async middleware.  It awaits                      *)
(* auth.getUserFromToken(req.token); when the promise settles it assigns   *)
(* req.user and calls next() inside the try block, and the catch block     *)
(* calls next again.  next is the caller's function: it returns or it      *)
(* throws.  Other requests enter the middleware while one waits.           *)

Tokens == {"admin-token", "user-token", "expired-token", "undefined"}

\* auth.getUserFromToken(token): the user of a token that verifies; a
\* rejection otherwise.
getUserFromToken(token) ==
    CASE token = "admin-token" -> Returned([id |-> "u1", role |-> "admin"])
      [] token = "user-token" -> Returned([id |-> "u2", role |-> "user"])
      [] token = "expired-token" -> Thrown("TokenExpiredError")
      [] OTHER -> Thrown("UnauthorizedError")

\* One call of next with argument arg.
CallNext(r, arg) == [r EXCEPT !.calls = Append(@, arg)]

\* Lines 17-23: the catch block calls next with the error when required and
\* without argument otherwise; a throw of this next rejects the promise the
\* middleware returned.
JwtCatch(r, e, nextThrows) ==
    [CallNext(r, IF r.required THEN e ELSE "none")
       EXCEPT !.pc = IF nextThrows THEN "rejected" ELSE "done"]

\* Lines 14-16: req.user is assigned and next() is called in the try block;
\* when it throws, the catch block is entered with what it threw.
JwtTry(r, user, nextThrows, nextThrowsAgain) ==
    LET called == CallNext([r EXCEPT !.user = user], "none")
    IN IF nextThrows
       THEN JwtCatch(called, "DownstreamError", nextThrowsAgain)
       ELSE [called EXCEPT !.pc = "done"]

JwtGoes(s, r) == jwt' = [jwt EXCEPT !.reqs[s] = r]

\* Lines 12-14: a request enters the middleware, which asks for the user of
\* its token.
JwtBegin ==
    \E s \in Slots, required \in BOOLEAN, token \in Tokens :
      /\ jwt.reqs[s].pc = "idle"
      /\ jwt.handled < MaxRequests
      /\ JwtGoes(s, [pc |-> "getUserFromToken", required |-> required,
                     token |-> token, user |-> Undefined, calls |-> <<>>])
      /\ UNCHANGED <<confVars, pureVars, httpVars, eventVars>>

\* Lines 14-23: the promise settles and the middleware runs to its end.
JwtSettle ==
    \E s \in Slots, nextThrows \in BOOLEAN, nextThrowsAgain \in BOOLEAN :
      /\ jwt.reqs[s].pc = "getUserFromToken"
      /\ LET result == getUserFromToken(jwt.reqs[s].token)
         IN JwtGoes(s, IF result.threw
                       THEN JwtCatch(jwt.reqs[s], result.error, nextThrowsAgain)
                       ELSE JwtTry(jwt.reqs[s], result.value, nextThrows, nextThrowsAgain))
      /\ UNCHANGED <<confVars, pureVars, httpVars, eventVars>>

\* The request is over; the next one may come.
JwtEnd ==
    \E s \in Slots :
      /\ jwt.reqs[s].pc \in {"done", "rejected"}
      /\ jwt' = [handled |-> jwt.handled + 1, reqs |-> [jwt.reqs EXCEPT ![s] = Idle]]
      /\ UNCHANGED <<confVars, pureVars, httpVars, eventVars>>

InitAuth ==
    /\ VENUE_CAPACITY_RANGES = DefaultRanges
    /\ cityConfigs = [c \in {TheCity} |-> Conf(DefaultRanges, DefaultRanges, DefaultRanges)]
    /\ PureIdle
    /\ HttpIdle
    /\ EventsIdle
    /\ AuthIdle

NextAuth == JwtBegin \/ JwtSettle \/ JwtEnd

SpecAuth == InitAuth /\ [][NextAuth]_vars

\* C10: jwtAuth calls next exactly once per request: once it has run to its
\* end next has been called once, never twice: without argument when the
\* token resolved (req.user set) or when resolution failed and required is
\* false (req.user unset), with the verification error when resolution
\* failed and required is true.
C10_NextExactlyOnce ==
    \A s \in Slots :
      jwt.reqs[s].pc \in {"done", "rejected"} =>
        /\ Len(jwt.reqs[s].calls) = 1
        /\ LET result == getUserFromToken(jwt.reqs[s].token)
           IN IF ~result.threw
              THEN /\ jwt.reqs[s].calls[1] = "none"
                   /\ jwt.reqs[s].user = result.value
              ELSE /\ jwt.reqs[s].user = Undefined
                   /\ jwt.reqs[s].calls[1] =
                        IF jwt.reqs[s].required THEN result.error ELSE "none"

============================================================================
